---- MODULE Spec2Model ----
(***************************************************************************)
(* Model of the insurance-document RAG pipeline:                           *)
(*   - PDFParser (src/src/utils/pdf_parser.py): glyph de-duplication, line *)
(*     assembly, text-level de-duplication;                                *)
(*   - DocumentProcessor (src/src/utils/processor.py): page assembly,      *)
(*     table extraction, table chunking, batches of files;                 *)
(*   - E5Tokenizer (src/src/utils/tokenizer.py);                           *)
(*   - VectorDB (src/src/vectordb.py): hybrid retrieval.                   *)
(*                                                                         *)
(* A Python str is a sequence of one-character strings.  Offsets are       *)
(* 0-based as in Python; sequence indices are 1-based as in TLA+.          *)
(***************************************************************************)
EXTENDS Integers, Sequences, FiniteSets, TLC

VARIABLES
    \* --- DocumentProcessor._extract_tables call
    text,          \* argument `text`
    extracted,     \* returned (text_with_placeholders, tables, table_positions), or NotRun
    \* --- DocumentProcessor._chunk_table call
    table,         \* argument `table`
    maxTokens,     \* argument `max_tokens` (0 stands for None)
    tableChunks,   \* returned list of chunks, or NotRun
    \* --- DocumentProcessor.process_file call
    pages,         \* what parser.parse_file returned: page contents, page i+1 at index i+1
    doc,           \* the locals of process_file after it ran, or NotRun
    \* --- VectorDB
    store,         \* Chroma collection: the stored chunks, in insertion order
    storeOpen,     \* self._store is not None
    embeddings,    \* self._embeddings is not None
    allDocuments,  \* self._all_documents: None, a list of its own, or a caller's list
    bm25,          \* self._bm25: NoIndex for None, or the retriever (its indexed docs and its k)
    reranker,      \* hasattr(self, '_reranker')
    builds,        \* how many times each lazily built object was constructed
    last,          \* the last VectorDB call: its arguments, internals and return value
    \* --- DocumentProcessor.process_files call
    filePaths,     \* argument `file_paths`: what each path holds
    batch,         \* the loop of process_files: its position and its locals
    \* --- PDFParser._extract_text_from_chars call
    chars,         \* page.chars: the glyphs of the page, in file order
    pageText,      \* the returned string, or NotRun
    \* --- PDFParser._deduplicate_text call
    rawText,       \* argument `text`
    dedupText,     \* the returned string, or NotRun
    \* --- PDFParser._table_to_markdown call
    grid,          \* argument `table`: rows of cells, a cell being None or a str
    markdown,      \* the returned string, or NotRun
    \* --- PDFParser._extract_page_content call
    pageTables,    \* page.find_tables() zipped with page.extract_tables()
    proseText,     \* what the glyphs outside the tables (or of the page) give
    pageContent,   \* the locals of _extract_page_content after it ran, or NotRun
    \* --- DocumentProcessor.__init__ call
    ctorArgs,      \* arguments max_tokens and token_overlap (-1 stands for None)
    splitter       \* what create_text_splitter was called with, or NotRun

procVars == <<text, extracted, table, maxTokens, tableChunks, pages, doc>>
dbVars == <<store, storeOpen, embeddings, allDocuments, bm25, reranker, builds, last>>
batchVars == <<filePaths, batch>>
pdfVars == <<chars, pageText, rawText, dedupText>>
parserVars == <<grid, markdown, pageTables, proseText, pageContent>>
ctorVars == <<ctorArgs, splitter>>
vars == <<procVars, dbVars, batchVars, pdfVars, parserVars, ctorVars>>

\* the value of a result variable before the call has run
NotRun == [done |-> FALSE]

(***************************************************************************)
(* Bounds of the model.                                                    *)
(***************************************************************************)
MaxLines == 3        \* lines of an _extract_tables input
MaxTableLines == 5   \* lines of a _chunk_table input (header, delimiter, rows)
MaxBudget == 12      \* largest max_tokens passed to _chunk_table
MaxPages == 3        \* pages of a document
MaxStore == 2        \* chunks the vector store holds
MaxK == 2            \* largest k passed to search
MaxLongLines == 5    \* lines of an _extract_tables input with several tables
MaxFiles == 3        \* paths passed to process_files
MaxGlyphs == 3       \* glyphs of a page
MaxTextLen == 6      \* characters of a _deduplicate_text input

(***************************************************************************)
(* Python str and list helpers.                                            *)
(***************************************************************************)
NL == "\n"
Whitespace == {" ", NL}

Min(a, b) == IF a < b THEN a ELSE b

\* s[lo:hi] with 0 <= lo, Python slice semantics (hi clamped)
Slice(s, lo, hi) == SubSeq(s, lo + 1, Min(hi, Len(s)))

\* xs[:k] for k >= 0
Take(xs, k) == SubSeq(xs, 1, Min(k, Len(xs)))

RECURSIVE SplitFrom(_, _, _)
\* str.split(sep) for a one-character sep; cur is the piece being read
SplitFrom(s, sep, cur) ==
    IF s = <<>> THEN <<cur>>
    ELSE IF Head(s) = sep THEN <<cur>> \o SplitFrom(Tail(s), sep, <<>>)
    ELSE SplitFrom(Tail(s), sep, Append(cur, Head(s)))

Split(s, sep) == SplitFrom(s, sep, <<>>)

RECURSIVE Join(_, _)
\* sep.join(parts)
Join(parts, sep) ==
    IF parts = <<>> THEN <<>>
    ELSE IF Len(parts) = 1 THEN parts[1]
    ELSE parts[1] \o sep \o Join(Tail(parts), sep)

RECURSIVE LStrip(_)
LStrip(s) == IF s # <<>> /\ Head(s) \in Whitespace THEN LStrip(Tail(s)) ELSE s

RECURSIVE RStrip(_)
RStrip(s) ==
    IF s # <<>> /\ s[Len(s)] \in Whitespace THEN RStrip(SubSeq(s, 1, Len(s) - 1)) ELSE s

\* str.strip()
Strip(s) == RStrip(LStrip(s))

\* str.startswith(p)
StartsWith(s, p) == Len(s) >= Len(p) /\ SubSeq(s, 1, Len(p)) = p

\* str.find(p): the 0-based offset of the first occurrence, or -1
Find(s, p) ==
    LET hits == {o \in 0..(Len(s) - Len(p)) : SubSeq(s, o + 1, o + Len(p)) = p}
    IN IF hits = {} THEN -1 ELSE CHOOSE o \in hits : \A o2 \in hits : o <= o2

RECURSIVE SumLenNoNewline(_, _, _)
\* mutant: the newline that ends each table line is not counted
SumLenNoNewline(lines, i, j) ==
    IF i >= j THEN 0 ELSE Len(lines[i]) + SumLenNoNewline(lines, i + 1, j)

RECURSIVE SumLen(_, _, _)
\* sum(len(lines[k]) + 1 for k in range(i, j)), 1-based i..j-1
SumLen(lines, i, j) ==
    IF i >= j THEN 0 ELSE Len(lines[i]) + 1 + SumLen(lines, i + 1, j)

RECURSIVE SeqsUpTo(_, _)
\* all sequences over S of length 0..n
SeqsUpTo(S, n) ==
    IF n = 0 THEN {<<>>}
    ELSE LET shorter == SeqsUpTo(S, n - 1)
         IN shorter \cup {Append(q, x) : q \in {r \in shorter : Len(r) = n - 1}, x \in S}

(***************************************************************************)
(* DocumentProcessor._extract_tables                                       *)
(***************************************************************************)
Digits == <<"0", "1", "2", "3", "4", "5", "6", "7", "8", "9">>

\* f'__TABLE_{n}__' (n < 10 in this model)
Placeholder(n) == <<"_", "_", "T", "A", "B", "L", "E", "_", Digits[n + 1], "_", "_">>

\* re.match(r'^\|[\s\-:]+\|', line): a pipe, one or more of whitespace, dash
\* or colon, then a pipe; anything may follow
SeparatorMatch(line) ==
    /\ Len(line) >= 3
    /\ line[1] = "|"
    /\ \E j \in 3..Len(line) :
          /\ line[j] = "|"
          /\ \A m \in 2..(j - 1) : line[m] \in Whitespace \cup {"-", ":"}

\* the test of processor.py lines 81-84 for the line at (1-based) index i
IsTableStart(lines, i) ==
    /\ StartsWith(Strip(lines[i]), <<"|">>)
    /\ i + 1 <= Len(lines)
    /\ SeparatorMatch(Strip(lines[i + 1]))

RECURSIVE TableEnd(_, _)
\* the inner while loop: the first index j >= i whose line does not start a
\* table row (after strip), or Len(lines) + 1
TableEnd(lines, j) ==
    IF j <= Len(lines) /\ StartsWith(Strip(lines[j]), <<"|">>)
    THEN TableEnd(lines, j + 1)
    ELSE j

\* mutant: the stripped line is kept instead of the line
KeptLineStripped(lines, i) == Strip(lines[i])

\* result_lines.append(lines[i]) for a line outside a table
KeptLine(lines, i) == lines[i]

RECURSIVE ExtractLoop(_, _, _, _, _, _)
\* the outer while loop; i is 1-based, pos is current_char_pos
ExtractLoop(lines, i, pos, resultLines, tables, positions) ==
    IF i > Len(lines)
    THEN [done |-> TRUE, text |-> Join(resultLines, <<NL>>),
          tables |-> tables, positions |-> positions]
    ELSE IF IsTableStart(lines, i)
    THEN LET j == TableEnd(lines, i)
             tableText == Join(SubSeq(lines, i, j - 1), <<NL>>)
         IN ExtractLoop(lines, j, pos + SumLen(lines, i, j),
                        Append(resultLines, Placeholder(Len(tables))),
                        Append(tables, tableText),
                        Append(positions, pos))
    ELSE ExtractLoop(lines, i + 1, pos + Len(lines[i]) + 1,
                     Append(resultLines, KeptLine(lines, i)), tables, positions)

ExtractTables(t) == ExtractLoop(Split(t, NL), 1, 0, <<>>, <<>>, <<>>)

(***************************************************************************)
(* Inputs of _extract_tables: texts of up to MaxLines lines.               *)
(***************************************************************************)
InputLines ==
    { <<>>,
      <<"a">>,
      <<" ", "a">>,
      <<"a", " ">>,
      <<"|", "a", "|">>,
      <<" ", "|", "a">>,
      <<"|", "-", "|">>,
      <<" ", "|", "-", "|">>,
      <<"|", ":", "-", " ", "|", "a">>,
      <<"|", "a", "-", "|">>,
      <<"a", "|">>,
      <<"-">> }

InputTexts == {Join(ls, <<NL>>) : ls \in SeqsUpTo(InputLines, MaxLines)}

\* lines of the longer inputs: prose, a blank line, table rows (one of them
\* indented) and a separator row
LongInputLines ==
    { <<>>,
      <<"a">>,
      <<"|", "a">>,
      <<" ", "|", "a">>,
      <<"|", "-", "|">> }

LongInputTexts == {Join(ls, <<NL>>) : ls \in SeqsUpTo(LongInputLines, MaxLongLines)}

ExtractTablesCall ==
    /\ ~extracted.done
    /\ extracted' = ExtractTables(text)
    /\ UNCHANGED <<text, table, maxTokens, tableChunks, pages, doc, dbVars, batchVars, pdfVars, parserVars, ctorVars>>

(***************************************************************************)
(* E5Tokenizer.  The subword vocabulary of the embedding model is not part *)
(* of the repository; it is abstracted to one token per whitespace-        *)
(* delimited word.  What the code relies on is kept: encode() brackets the *)
(* tokens with two special tokens, whitespace (line breaks included) is    *)
(* not a token, and decode() joins the tokens with single spaces.          *)
(***************************************************************************)
BOS == <<"<s>">>
EOS == <<"</s>">>

RECURSIVE WordsFrom(_, _)
\* the whitespace-delimited words of s; cur is the word being read
WordsFrom(s, cur) ==
    IF s = <<>> THEN (IF cur = <<>> THEN <<>> ELSE <<cur>>)
    ELSE IF Head(s) \in Whitespace
    THEN (IF cur = <<>> THEN <<>> ELSE <<cur>>) \o WordsFrom(Tail(s), <<>>)
    ELSE WordsFrom(Tail(s), Append(cur, Head(s)))

Words(s) == WordsFrom(s, <<>>)

\* tokenizer.encode(text, add_special_tokens=True)
Encode(s) == <<BOS>> \o Words(s) \o <<EOS>>

\* tokenizer.decode(tokens, skip_special_tokens=True)
Decode(tokens) ==
    Join(SelectSeq(tokens, LAMBDA t : t \notin {BOS, EOS}), <<" ">>)

\* E5Tokenizer.count_tokens
CountTokens(s) == IF s = <<>> THEN 0 ELSE Len(Encode(s))

\* E5Tokenizer.truncate_to_tokens
TruncateToTokens(s, n) ==
    IF Len(Encode(s)) <= n THEN s ELSE Decode(Take(Encode(s), n))

(***************************************************************************)
(* DocumentProcessor._chunk_table                                          *)
(***************************************************************************)
MAX_TABLE_TOKENS == 400

\* header + '\n' + '\n'.join(current_rows)
ChunkContent(header, rows) == header \o <<NL>> \o Join(rows, <<NL>>)

\* mutant: the chunk is closed although it holds no row yet
ClosesChunkEmpty(currentTokens, rowTokens, currentRows, budget) ==
    currentTokens + rowTokens > budget

\* the test that closes the current chunk before `row` is added
ClosesChunk(currentTokens, rowTokens, currentRows, budget) ==
    currentTokens + rowTokens > budget /\ currentRows # <<>>

RECURSIVE ChunkRows(_, _, _, _, _, _, _)
\* the for loop over data_rows and the final flush
ChunkRows(rows, header, headerTokens, budget, chunks, currentRows, currentTokens) ==
    IF rows = <<>>
    THEN (IF currentRows # <<>>
          THEN Append(chunks, ChunkContent(header, currentRows))
          ELSE chunks)
    ELSE LET row == Head(rows)
             rowTokens == CountTokens(row)
         IN IF ClosesChunk(currentTokens, rowTokens, currentRows, budget)
            THEN ChunkRows(Tail(rows), header, headerTokens, budget,
                           Append(chunks, ChunkContent(header, currentRows)),
                           <<row>>, headerTokens + rowTokens)
            ELSE ChunkRows(Tail(rows), header, headerTokens, budget, chunks,
                           Append(currentRows, row), currentTokens + rowTokens)

\* the fallback taken when the header alone reaches the budget
HeaderFallback(t, budget) == <<TruncateToTokens(t, budget)>>

\* _chunk_table(table, max_tokens); mt = 0 stands for max_tokens=None
ChunkTable(t, mt) ==
    LET budget == IF mt = 0 THEN MAX_TABLE_TOKENS ELSE mt
        lines == Split(t, NL)
        header == Join(SubSeq(lines, 1, 2), <<NL>>)
        headerTokens == CountTokens(header)
        dataRows == SubSeq(lines, 3, Len(lines))
    IN IF Len(lines) < 2 THEN <<t>>
       ELSE IF dataRows = <<>> THEN <<t>>
       ELSE IF CountTokens(t) <= budget THEN <<t>>
       ELSE IF headerTokens >= budget THEN HeaderFallback(t, budget)
       ELSE LET chunks == ChunkRows(dataRows, header, headerTokens, budget,
                                    <<>>, <<>>, headerTokens)
            IN IF chunks # <<>> THEN chunks ELSE <<t>>

(***************************************************************************)
(* Inputs of _chunk_table: tables of up to MaxTableLines lines, budgets up *)
(* to MaxBudget tokens.                                                    *)
(***************************************************************************)
TableLines ==
    { <<"|", "a">>,
      <<"|", "b">>,
      <<"|", "c", " ", "|", "c">>,
      <<"|", "d", " ", "|", "d", " ", "|", "d", " ", "|", "d", " ", "|", "d">> }

InputTables == {Join(ls, <<NL>>) : ls \in SeqsUpTo(TableLines, MaxTableLines)}

ChunkTableCall ==
    /\ ~tableChunks.done
    /\ tableChunks' = [done |-> TRUE, chunks |-> ChunkTable(table, maxTokens)]
    /\ UNCHANGED <<text, extracted, table, maxTokens, pages, doc, dbVars, batchVars, pdfVars, parserVars, ctorVars>>

(***************************************************************************)
(* DocumentProcessor.process_file                                          *)
(***************************************************************************)
PREFIX_LEN == 50

RECURSIVE AssembleLoop(_, _, _, _, _)
\* the loop over pages: page i (1-based) has page number i (parse_file
\* numbers the pages from 1)
AssembleLoop(ps, i, fullText, pageRanges, currentPosition) ==
    IF i > Len(ps)
    THEN [fullText |-> fullText, pageRanges |-> pageRanges]
    ELSE AssembleLoop(ps, i + 1,
                      fullText \o ps[i] \o <<NL, NL>>,
                      Append(pageRanges,
                             [page |-> i,
                              start |-> currentPosition,
                              end |-> currentPosition + Len(ps[i])]),
                      currentPosition + Len(ps[i]) + 2)

\* lines 207-225: full_text (stripped) and page_ranges
AssemblePages(ps) ==
    LET r == AssembleLoop(ps, 1, <<>>, <<>>, 0)
    IN [fullText |-> Strip(r.fullText), pageRanges |-> r.pageRanges]

\* _get_page_for_position
GetPageForPosition(position, pageRanges) ==
    LET hits == {i \in DOMAIN pageRanges :
                    pageRanges[i].start <= position /\ position < pageRanges[i].end}
    IN IF hits # {}
       THEN pageRanges[CHOOSE i \in hits : \A i2 \in hits : i <= i2].page
       ELSE IF pageRanges # <<>> THEN pageRanges[Len(pageRanges)].page ELSE 1

\* what self.splitter.split_documents may return for text t.  The splitter
\* is langchain's RecursiveCharacterTextSplitter: its chunks are non-empty,
\* stripped, contiguous pieces of t.  The loop of lines 245-255 treats each
\* chunk on its own, so a list of at most one such piece stands for its
\* output.
SplitterOutputs(t) ==
    LET pieces == {SubSeq(t, a, b) : a \in 1..Len(t), b \in 1..Len(t)}
        chunks == {c \in pieces : c # <<>> /\ Strip(c) = c}
    IN {<<>>} \cup {<<c>> : c \in chunks}

\* lines 245-255: the metadata of one text chunk
TextDoc(chunk, fullText, pageRanges) ==
    LET searchText == IF Len(chunk) >= PREFIX_LEN THEN Slice(chunk, 0, PREFIX_LEN) ELSE chunk
        chunkStart == Find(fullText, searchText)
        found == ~StartsWith(searchText, <<"_", "_", "T", "A", "B", "L", "E", "_">>)
                 /\ chunkStart >= 0
    IN [content |-> chunk, contentType |-> "text",
        hasPage |-> found,
        page |-> IF found THEN GetPageForPosition(chunkStart, pageRanges) ELSE 0,
        tableIndex |-> -1, tableChunk |-> 0, tableTotalChunks |-> 0]

\* mutant: table_chunk is the 0-based chunk_idx
TableDocsZeroBased(i, tbl, tableStart, pageRanges) ==
    LET pageNum == GetPageForPosition(tableStart, pageRanges)
        tableChunkList == ChunkTable(tbl, 0)
    IN [n \in 1..Len(tableChunkList) |->
           [content |-> tableChunkList[n], contentType |-> "table",
            hasPage |-> TRUE, page |-> pageNum,
            tableIndex |-> i, tableChunk |-> n - 1,
            tableTotalChunks |-> Len(tableChunkList)]]

\* lines 258-278: the documents of table i (0-based) starting at tableStart
TableDocs(i, tbl, tableStart, pageRanges) ==
    LET pageNum == GetPageForPosition(tableStart, pageRanges)
        tableChunkList == ChunkTable(tbl, 0)
    IN [n \in 1..Len(tableChunkList) |->
           [content |-> tableChunkList[n], contentType |-> "table",
            hasPage |-> TRUE, page |-> pageNum,
            tableIndex |-> i, tableChunk |-> n,
            tableTotalChunks |-> Len(tableChunkList)]]

RECURSIVE AllTableDocs(_, _, _, _)
AllTableDocs(i, tables, positions, pageRanges) ==
    IF i > Len(tables) THEN <<>>
    ELSE TableDocs(i - 1, tables[i], positions[i], pageRanges)
         \o AllTableDocs(i + 1, tables, positions, pageRanges)

\* process_file, given what the parser returned and what the splitter returns
ProcessFile(ps, splitDocs) ==
    IF ps = <<>> THEN [done |-> TRUE, empty |-> TRUE, docs |-> <<>>]
    ELSE LET a == AssemblePages(ps)
             e == ExtractTables(a.fullText)
         IN [done |-> TRUE, empty |-> FALSE,
             fullText |-> a.fullText,
             pageRanges |-> a.pageRanges,
             totalPages |-> Len(ps),
             textWithoutTables |-> e.text,
             tables |-> e.tables,
             tablePositions |-> e.positions,
             docs |-> [n \in 1..Len(splitDocs) |->
                          TextDoc(splitDocs[n], a.fullText, a.pageRanges)]
                      \o AllTableDocs(1, e.tables, e.positions, a.pageRanges)]

\* page contents the parser produces: a page without tables is stripped
\* (possibly empty); a page with tables joins prose and tables with a blank
\* line and is not stripped
PageContents ==
    { <<>>,
      <<"a">>,
      <<"b", NL, "b">>,
      <<"|", "a", NL, "|", "-", "|">>,
      <<" ", "c", NL, NL, "|", "a", NL, "|", "-", "|">> }

ProcessFileCall ==
    /\ ~doc.done
    /\ \E splitDocs \in
          SplitterOutputs(IF pages = <<>> THEN <<>>
                          ELSE ExtractTables(AssemblePages(pages).fullText).text) :
          doc' = ProcessFile(pages, splitDocs)
    /\ UNCHANGED <<text, extracted, table, maxTokens, tableChunks, pages, dbVars, batchVars, pdfVars, parserVars, ctorVars>>

(***************************************************************************)
(* DocumentProcessor.process_files.  The loop is modelled one iteration at *)
(* a time.  batch.i is the number of paths handled, batch.allDocuments is  *)
(* the local all_documents, batch.calls records what each process_file     *)
(* call did (raised, or the list it returned).                             *)
(***************************************************************************)
\* a path at which parse_file raises (no such file, or not a PDF)
Unreadable == [readable |-> FALSE, pages |-> <<>>]

\* what a path may hold: nothing readable, or a PDF of zero pages or one page
FileContents ==
    {Unreadable} \cup {[readable |-> TRUE, pages |-> ps] : ps \in SeqsUpTo(PageContents, 1)}

\* what the splitter returns for a text within chunk_size (every text of
\* these files is): the stripped text as one chunk, or nothing when it is
\* blank; one of SplitterOutputs(t)
SplitShortText(t) == IF Strip(t) = <<>> THEN <<>> ELSE <<Strip(t)>>

\* process_file(path) for a path that holds a PDF with pages ps
ProcessReadableFile(ps) ==
    ProcessFile(ps, SplitShortText(IF ps = <<>> THEN <<>>
                                   ELSE ExtractTables(AssemblePages(ps).fullText).text))

BatchStart == [done |-> FALSE, raised |-> FALSE, i |-> 0,
               allDocuments |-> <<>>, calls |-> <<>>]

\* mutant: the exception of process_file leaves process_files
OnErrorAbort(b) ==
    [b EXCEPT !.done = TRUE, !.raised = TRUE,
              !.calls = Append(@, [raised |-> TRUE, docs |-> <<>>])]

\* lines 299-300: the except clause prints and the loop goes on
OnError(b) ==
    [b EXCEPT !.i = @ + 1,
              !.calls = Append(@, [raised |-> TRUE, docs |-> <<>>])]

\* lines 296-297: all_documents.extend(docs)
OnProcessed(b, docs) ==
    [b EXCEPT !.i = @ + 1,
              !.allDocuments = @ \o docs,
              !.calls = Append(@, [raised |-> FALSE, docs |-> docs])]

\* one iteration of the for loop of lines 294-300
ProcessFilesStep ==
    /\ ~batch.done
    /\ batch.i < Len(filePaths)
    /\ LET f == filePaths[batch.i + 1]
       IN IF ~f.readable
          THEN batch' = OnError(batch)
          ELSE batch' = OnProcessed(batch, ProcessReadableFile(f.pages).docs)
    /\ UNCHANGED <<filePaths, procVars, dbVars, pdfVars, parserVars, ctorVars>>

\* line 302: return all_documents
ProcessFilesReturn ==
    /\ ~batch.done
    /\ batch.i = Len(filePaths)
    /\ batch' = [batch EXCEPT !.done = TRUE]
    /\ UNCHANGED <<filePaths, procVars, dbVars, pdfVars, parserVars, ctorVars>>

(***************************************************************************)
(* PDFParser._deduplicate_text                                             *)
(***************************************************************************)
\* the characters of the model that lie in U+0590..U+05FF
HebrewBlock == {"ה", "ב"}

RECURSIVE RunLength(_)
\* the length of the run of Head(s) at the front of a non-empty s
RunLength(s) ==
    IF Len(s) >= 2 /\ s[2] = s[1] THEN 1 + RunLength(Tail(s)) ELSE 1

RECURSIVE CollapseRuns(_, _, _, _)
\* re.sub(r'(C)\1{m,}', r'\1', s) for a character class C: the scan goes left
\* to right; where a character of the class is followed by at least m
\* copies of itself the greedy match takes the whole run and one character
\* replaces it.  The class is `cls`, or its complement when negated.
CollapseRuns(s, cls, negated, m) ==
    IF s = <<>> THEN <<>>
    ELSE LET n == RunLength(s)
         IN IF ((Head(s) \in cls) # negated) /\ n - 1 >= m
            THEN <<Head(s)>> \o CollapseRuns(SubSeq(s, n + 1, Len(s)), cls, negated, m)
            ELSE <<Head(s)>> \o CollapseRuns(Tail(s), cls, negated, m)

\* mutant: the second pattern reads \1{2,}
DeduplicateTextFromThree(t) ==
    IF t = <<>> THEN t
    ELSE CollapseRuns(CollapseRuns(t, HebrewBlock, FALSE, 1), HebrewBlock, TRUE, 2)

\* _deduplicate_text, lines 309-319
DeduplicateText(t) ==
    IF t = <<>> THEN t
    ELSE CollapseRuns(CollapseRuns(t, HebrewBlock, FALSE, 1), HebrewBlock, TRUE, 3)

\* the characters of the inputs: two Hebrew letters, a digit and a comma
TextChars == HebrewBlock \cup {"0", ","}

\* '2,000,000'
TwoMillion == <<"2", ",", "0", "0", "0", ",", "0", "0", "0">>

DeduplicateTextCall ==
    /\ ~dedupText.done
    /\ dedupText' = [done |-> TRUE, text |-> DeduplicateText(rawText)]
    /\ UNCHANGED <<rawText, chars, pageText, procVars, dbVars, batchVars, parserVars, ctorVars>>

(***************************************************************************)
(* PDFParser._extract_text_from_chars, without exclude_bboxes.  A glyph is *)
(* a record [text, x0, top]; the coordinates are integers here.            *)
(***************************************************************************)
POSITION_TOLERANCE == 2
LINE_TOLERANCE == 5

Abs(x) == IF x < 0 THEN -x ELSE x

\* mutant: the position is truncated to the tolerance grid
RoundToToleranceDown(x, tol) == (x \div tol) * tol

\* round(x / tol) * tol for integers x >= 0 and tol > 0: Python's round()
\* rounds a half to the even neighbour
RoundToTolerance(x, tol) ==
    LET q == x \div tol
        r == x % tol
    IN (IF 2 * r < tol THEN q
        ELSE IF 2 * r > tol THEN q + 1
        ELSE IF q % 2 = 0 THEN q ELSE q + 1) * tol

\* lines 169-173: pos_key
PosKey(c) ==
    <<RoundToTolerance(c.x0, POSITION_TOLERANCE),
      RoundToTolerance(c.top, POSITION_TOLERANCE), c.text>>

RECURSIVE DedupChars(_, _, _)
\* lines 164-176: the first glyph of every pos_key is kept
DedupChars(cs, seenPositions, deduplicatedChars) ==
    IF cs = <<>> THEN deduplicatedChars
    ELSE IF PosKey(Head(cs)) \notin seenPositions
    THEN DedupChars(Tail(cs), seenPositions \cup {PosKey(Head(cs))},
                    Append(deduplicatedChars, Head(cs)))
    ELSE DedupChars(Tail(cs), seenPositions, deduplicatedChars)

\* c inserted into the sorted list after every glyph whose key is not larger
InsertByKey(c, sorted, key) ==
    LET n == Cardinality({i \in DOMAIN sorted : sorted[i][key] <= c[key]})
    IN SubSeq(sorted, 1, n) \o <<c>> \o SubSeq(sorted, n + 1, Len(sorted))

RECURSIVE SortedByKey(_, _)
\* sorted(cs, key=lambda c: c[key]): ascending and stable
SortedByKey(cs, key) ==
    IF cs = <<>> THEN <<>>
    ELSE InsertByKey(cs[Len(cs)], SortedByKey(SubSeq(cs, 1, Len(cs) - 1), key), key)

RECURSIVE GroupLines(_, _, _)
\* lines 188-200: a glyph joins the current line when its top is within
\* LINE_TOLERANCE of the top of the line's first glyph
GroupLines(cs, lines, currentLine) ==
    IF cs = <<>> THEN Append(lines, currentLine)
    ELSE IF Abs(Head(cs).top - currentLine[1].top) <= LINE_TOLERANCE
    THEN GroupLines(Tail(cs), lines, Append(currentLine, Head(cs)))
    ELSE GroupLines(Tail(cs), Append(lines, currentLine), <<Head(cs)>>)

\* lines 208-211: the text of one line
LineText(line) ==
    LET lineChars == SortedByKey(line, "x0")
    IN DeduplicateText([i \in DOMAIN lineChars |-> lineChars[i].text])

\* _extract_text_from_chars(page) for page.chars = cs: the returned text and
\* the locals deduplicated_chars and text_lines
ExtractTextFromChars(cs) ==
    IF cs = <<>>
    THEN [done |-> TRUE, deduplicatedChars |-> <<>>, textLines |-> <<>>, text |-> <<>>]
    ELSE LET deduplicatedChars == DedupChars(cs, {}, <<>>)
             sorted == SortedByKey(deduplicatedChars, "top")
             lines == GroupLines(Tail(sorted), <<>>, <<Head(sorted)>>)
             textLines == [i \in DOMAIN lines |-> LineText(lines[i])]
         IN [done |-> TRUE, deduplicatedChars |-> deduplicatedChars,
             textLines |-> textLines, text |-> Join(textLines, <<NL>>)]

\* the glyphs of a page
Glyphs ==
    { [text |-> "ה", x0 |-> 10, top |-> 10],
      [text |-> "ה", x0 |-> 11, top |-> 11],
      [text |-> "ה", x0 |-> 200, top |-> 10],
      [text |-> "0", x0 |-> 10, top |-> 10],
      [text |-> "0", x0 |-> 12, top |-> 30] }

ExtractTextFromCharsCall ==
    /\ ~pageText.done
    /\ pageText' = ExtractTextFromChars(chars)
    /\ UNCHANGED <<chars, rawText, dedupText, procVars, dbVars, batchVars, parserVars, ctorVars>>

(***************************************************************************)
(* PDFParser._table_to_markdown and _clean_cell.  A cell is a record       *)
(* [none, str]: None, or a str.  The inputs hold no '\r'.                  *)
(***************************************************************************)
MaxCols == 2         \* cells of a row of a _table_to_markdown input
MaxRows == 3         \* rows of a _table_to_markdown input

NoneCell == [none |-> TRUE, str |-> <<>>]
StrCell(s) == [none |-> FALSE, str |-> s]

RECURSIVE Replace(_, _, _)
\* s.replace(old, new) for a one-character old
Replace(s, old, new) ==
    IF s = <<>> THEN <<>>
    ELSE (IF Head(s) = old THEN new ELSE <<Head(s)>>) \o Replace(Tail(s), old, new)

\* _clean_cell, lines 273-289
CleanCell(cell) ==
    IF cell.none THEN <<>>
    ELSE LET stripped == Strip(cell.str)
             oneLine == Replace(Replace(stripped, NL, <<" ">>), "\r", <<>>)
             deduplicated == DeduplicateText(oneLine)
         IN Replace(deduplicated, "|", <<"\\", "|">>)

\* "| " + " | ".join(cells) + " |"
MarkdownRow(cells) == <<"|", " ">> \o Join(cells, <<" ", "|", " ">>) \o <<" ", "|">>

\* mutant: a row longer than the header keeps all its cells
FitRowPadOnly(row, colCount) ==
    IF Len(row) >= colCount THEN row
    ELSE [i \in 1..colCount |-> IF i <= Len(row) THEN row[i] ELSE <<>>]

\* lines 257-259: the row is padded with "" up to col_count cells and cut
\* to col_count cells
FitRow(row, colCount) ==
    [i \in 1..colCount |-> IF i <= Len(row) THEN row[i] ELSE <<>>]

\* _table_to_markdown, lines 226-261
TableToMarkdown(t) ==
    IF t = <<>> THEN <<>>
    ELSE LET rows == SelectSeq(t, LAMBDA row : row # <<>>)
             cleanedTable == [r \in DOMAIN rows |->
                                 [c \in DOMAIN rows[r] |-> CleanCell(rows[r][c])]]
         IN IF cleanedTable = <<>> THEN <<>>
            ELSE LET colCount == Len(cleanedTable[1])
                     header == MarkdownRow(cleanedTable[1])
                     separator == MarkdownRow([i \in 1..colCount |-> <<"-", "-", "-">>])
                     dataRows == [r \in 1..(Len(cleanedTable) - 1) |->
                                     MarkdownRow(FitRow(cleanedTable[r + 1], colCount))]
                 IN IF colCount = 0 THEN <<>>
                    ELSE Join(<<header, separator>> \o dataRows, <<NL>>)

\* the cells of the inputs: None, and ' a\n|'
Cells == {NoneCell, StrCell(<<" ", "a", NL, "|">>)}

TableToMarkdownCall ==
    /\ ~markdown.done
    /\ markdown' = [done |-> TRUE, text |-> TableToMarkdown(grid)]
    /\ UNCHANGED <<grid, pageTables, proseText, pageContent, procVars, dbVars,
                   batchVars, pdfVars, ctorVars>>

(***************************************************************************)
(* PDFParser._extract_page_content.  A table of the page is a record       *)
(* [top, data]: bbox[1] of the table object and the extracted cell grid.   *)
(***************************************************************************)
MaxPageTables == 2   \* tables of a page

\* line 94
JoinParts(elements) == Join([i \in DOMAIN elements |-> elements[i].content], <<NL, NL>>)

RECURSIVE TableElements(_)
\* lines 74-79: one element per table whose Markdown is not empty
TableElements(tables) ==
    IF tables = <<>> THEN <<>>
    ELSE LET mdTable == TableToMarkdown(Head(tables).data)
         IN (IF mdTable # <<>>
             THEN <<[y |-> Head(tables).top, kind |-> "table", content |-> mdTable]>>
             ELSE <<>>) \o TableElements(Tail(tables))

\* lines 71-87: page_elements before the sort
PageElements(tables, textOutside) ==
    TableElements(tables) \o
    (IF textOutside # <<>>
     THEN <<[y |-> 0, kind |-> "text", content |-> textOutside]>>
     ELSE <<>>)

\* _extract_page_content, lines 60-95; charsText is what
\* _extract_text_from_chars gives for the glyphs of the page (outside the
\* tables when the page has tables)
ExtractPageContent(tables, charsText) ==
    IF tables = <<>>
    THEN [done |-> TRUE, elements |-> <<>>, content |-> Strip(charsText)]
    ELSE LET sorted == SortedByKey(PageElements(tables, charsText), "y")
         IN [done |-> TRUE, elements |-> sorted, content |-> JoinParts(sorted)]

\* the top edges of the tables of the inputs
TableTops == {0, 3, 7}

\* the cell grids of the tables of the inputs
TableGrids ==
    { <<<<StrCell(<<"a">>)>>>>,
      <<<<StrCell(<<"a">>)>>, <<NoneCell>>>> }

\* the texts the glyphs of the inputs give
ProseTexts == {<<>>, <<"p">>, <<"p", NL>>}

ExtractPageContentCall ==
    /\ ~pageContent.done
    /\ pageContent' = ExtractPageContent(pageTables, proseText)
    /\ UNCHANGED <<pageTables, proseText, grid, markdown, procVars, dbVars,
                   batchVars, pdfVars, ctorVars>>

(***************************************************************************)
(* DocumentProcessor.__init__ and create_text_splitter.  An int argument   *)
(* is its value, -1 standing for None.                                     *)
(***************************************************************************)
MaxTokensArg == 8    \* largest max_tokens passed to DocumentProcessor
MaxOverlapArg == 6   \* largest token_overlap passed to DocumentProcessor

MAX_TEXT_TOKENS == 450
TEXT_OVERLAP_TOKENS == 50

\* x or default: None and 0 are falsy
PyOr(x, default) == IF x = -1 \/ x = 0 THEN default ELSE x

\* create_text_splitter(max_tokens, token_overlap): the chunk_size and
\* chunk_overlap RecursiveCharacterTextSplitter is constructed with
CreateTextSplitter(mt, overlap) == [chunkSize |-> mt, chunkOverlap |-> overlap]

\* __init__, lines 47-54: self.max_tokens, self.token_overlap, self.splitter
DocumentProcessorInit ==
    /\ ~splitter.done
    /\ LET mt == PyOr(ctorArgs.maxTokens, MAX_TEXT_TOKENS)
           overlap == PyOr(ctorArgs.tokenOverlap, TEXT_OVERLAP_TOKENS)
       IN splitter' = [done |-> TRUE, maxTokens |-> mt, tokenOverlap |-> overlap,
                       config |-> CreateTextSplitter(mt, overlap)]
    /\ UNCHANGED <<ctorArgs, procVars, dbVars, batchVars, pdfVars, parserVars>>

(***************************************************************************)
(* VectorDB                                                                *)
(***************************************************************************)
\* a chunk: its page_content and the metadata the filter reads
DocChunks ==
    { [text |-> "a", page |-> 1],
      [text |-> "b", page |-> 2] }
Queries == {"", "q"}
\* the `filter` argument: 0 for None, p for {"page": p}
Filters == {0, 1}

NoIndex == [built |-> FALSE]
NoDocuments == [kind |-> "none", items |-> <<>>, passed |-> <<>>]

\* the permutations of the members of the finite set S, as sequences
Perms(S) ==
    {p \in [1..Cardinality(S) -> S] : \A i, j \in DOMAIN p : i # j => p[i] # p[j]}

RECURSIVE RankBy(_, _)
\* the documents of docs in the order `ranking` gives their values (equal
\* documents have equal scores)
RankBy(ranking, docs) ==
    IF ranking = <<>> THEN <<>>
    ELSE SelectSeq(docs, LAMBDA d : d = Head(ranking)) \o RankBy(Tail(ranking), docs)

\* store.similarity_search(query, k=initialK[, filter=...]): the vector index
\* ranks the (matching) stored chunks by similarity to the query embedding
\* and returns the top initialK; every ranking is possible
VectorResults(st, flt, initialK) ==
    LET matching == SelectSeq(st, LAMBDA d : flt = 0 \/ d.page = flt)
    IN {Take(RankBy(ranking, matching), initialK) : ranking \in Perms(DocChunks)}

\* bm25_retriever.invoke(query): the top retriever.k of the indexed chunks,
\* in term-frequency rank order; every ranking is possible
Bm25Results(retriever) ==
    IF ~retriever.built THEN {<<>>}
    ELSE {Take(RankBy(ranking, retriever.docs), retriever.k) :
             ranking \in Perms(DocChunks)}

\* _get_bm25_retriever(initial_k): the new self._bm25 and self._all_documents
GetBm25Retriever(initialK) ==
    IF bm25.built
    THEN [bm25 |-> [bm25 EXCEPT !.k = initialK], allDocuments |-> allDocuments,
          builtNow |-> FALSE]
    ELSE LET all1 == IF allDocuments.kind = "none"
                     THEN [kind |-> "own", items |-> store, passed |-> <<>>]
                     ELSE allDocuments
         IN [bm25 |-> IF all1.items # <<>>
                      THEN [built |-> TRUE, docs |-> all1.items, k |-> initialK]
                      ELSE NoIndex,
             allDocuments |-> all1, builtNow |-> all1.items # <<>>]

RECURSIVE MergeLoop(_, _, _)
\* lines 104-109: keep the first document of each page_content
MergeLoop(docs, seenContent, candidates) ==
    IF docs = <<>> THEN candidates
    ELSE IF Head(docs).text \notin seenContent
    THEN MergeLoop(Tail(docs), seenContent \cup {Head(docs).text},
                   Append(candidates, Head(docs)))
    ELSE MergeLoop(Tail(docs), seenContent, candidates)

\* mutant: the two result lists are concatenated without deduplication
HybridMergeNoDedup(vectorCandidates, bm25Candidates) ==
    vectorCandidates \o bm25Candidates

\* mutant: the lexical results are put before the vector results
HybridMergeLexicalFirst(vectorCandidates, bm25Candidates) ==
    MergeLoop(bm25Candidates \o vectorCandidates, {}, <<>>)

HybridMerge(vectorCandidates, bm25Candidates) ==
    MergeLoop(vectorCandidates \o bm25Candidates, {}, <<>>)

\* line 124: the k best of the candidates sorted by descending score
Reranked(sorted, k) == [raised |-> FALSE, result |-> Take(sorted, k)]

\* mutant: the exception of the reranking stage reaches the caller
RerankFallbackRaises(candidates, k) == [raised |-> TRUE, result |-> <<>>]

\* lines 125-127: any exception of the reranking stage is caught
RerankFallback(candidates, k) == [raised |-> FALSE, result |-> Take(candidates, k)]

\* mutant: the merged candidates are returned without the [:k] cut
UnrerankedUncut(candidates, k) == [raised |-> FALSE, result |-> candidates]

\* line 129
Unreranked(candidates, k) == [raised |-> FALSE, result |-> Take(candidates, k)]

RerankOutcomes == {"ok", "load_fails", "predict_fails"}

\* the scores self._reranker.predict may give a candidate
ScoreValues == {0, 1}

\* mutant: the sort misses reverse=True
SortByScoreAscending(candidates, scores) ==
    LET order == CHOOSE p \in Perms(DOMAIN candidates) :
                    \A i, j \in DOMAIN candidates :
                        i < j => \/ scores[p[i]] < scores[p[j]]
                                 \/ scores[p[i]] = scores[p[j]] /\ p[i] < p[j]
    IN [i \in DOMAIN candidates |-> candidates[order[i]]]

\* lines 122-123: list.sort(key=score, reverse=True) is stable, candidates of
\* equal score keep their merge order
SortByScore(candidates, scores) ==
    LET order == CHOOSE p \in Perms(DOMAIN candidates) :
                    \A i, j \in DOMAIN candidates :
                        i < j => \/ scores[p[i]] > scores[p[j]]
                                 \/ scores[p[i]] = scores[p[j]] /\ p[i] < p[j]
    IN [i \in DOMAIN candidates |-> candidates[order[i]]]

\* line 115: CrossEncoder(...) is constructed when the object has no
\* attribute _reranker yet
NeedsLoad(hasReranker) == ~hasReranker

\* mutant: the attribute is set although the constructor raised
RerankerAfterFailureCached(hasReranker, outcome) == TRUE

\* lines 115-117: hasattr(self, '_reranker') after the reranking stage; the
\* assignment of line 117 does not happen when the constructor raises
RerankerAfter(hasReranker, outcome) == hasReranker \/ outcome # "load_fails"

NoBuilds == [embeddings |-> 0, bm25 |-> 0]

\* mutant: the embeddings property constructs the model on every access
EmbeddingsPropertyUncached(loaded, n) == n + 1

\* the `embeddings` property, lines 31-37: the number of E5Embeddings
\* constructed after an access, n having been constructed before it
EmbeddingsProperty(loaded, n) == IF loaded THEN n ELSE n + 1

\* the `store` property, lines 39-47: Chroma(...) reads self.embeddings when
\* self._store is None
StoreProperty(open, loaded, n) == IF open THEN n ELSE EmbeddingsProperty(loaded, n)

\* no call is in progress and the last return value has been taken
Ready == last.op # "search"

\* lines 75-86 of add_documents for a non-empty list `documents`; aliased
\* tells whether the list passed is the very list self._all_documents is
AddDocuments(documents, aliased) ==
    /\ Len(store) + Len(documents) <= MaxStore
    /\ Len(allDocuments.items) + Len(documents) <= MaxStore + 1
    /\ store' = store \o documents
    /\ storeOpen' = TRUE
    /\ embeddings' = TRUE
    /\ allDocuments' =
          IF allDocuments.kind = "none"
          THEN [kind |-> "aliased", items |-> documents, passed |-> documents]
          ELSE [allDocuments EXCEPT !.items = @ \o documents]
    /\ bm25' = NoIndex
    /\ reranker' = reranker
    /\ builds' = [embeddings |-> StoreProperty(storeOpen, embeddings, builds.embeddings),
                  bm25 |-> 0]
    /\ last' = [op |-> "add", aliased |-> aliased, passed |-> documents,
                returned |-> Len(documents)]

\* a caller passes a list of its own to add_documents
AddNewList ==
    /\ Ready
    /\ \E documents \in SeqsUpTo(DocChunks, MaxStore) \ {<<>>} :
          AddDocuments(documents, FALSE)
    /\ UNCHANGED <<procVars, batchVars, pdfVars, parserVars, ctorVars>>

\* a caller passes the list that self._all_documents became at line 80 to
\* add_documents again (rag.py passes self.documents on every
\* embed_and_store)
AddSameList ==
    /\ Ready
    /\ allDocuments.kind = "aliased"
    /\ AddDocuments(allDocuments.items, TRUE)
    /\ UNCHANGED <<procVars, batchVars, pdfVars, parserVars, ctorVars>>

\* add_documents([]): lines 72-73
AddEmptyList ==
    /\ Ready
    /\ last' = [op |-> "add_empty", aliased |-> FALSE, passed |-> <<>>, returned |-> 0]
    /\ UNCHANGED <<store, storeOpen, embeddings, allDocuments, bm25, reranker,
                   builds, procVars, batchVars, pdfVars, parserVars, ctorVars>>

\* search(query, k, filter, use_reranker)
Search ==
    /\ Ready
    /\ \E query \in Queries, k \in 0..MaxK, flt \in Filters, useReranker \in BOOLEAN :
         LET initialK == IF useReranker THEN k * 4 ELSE k
             g == GetBm25Retriever(initialK)
         IN \E vectorCandidates \in VectorResults(store, flt, initialK),
               bm25Candidates \in Bm25Results(g.bm25) :
              LET candidates == HybridMerge(vectorCandidates, bm25Candidates)
                  call == [op |-> "search", query |-> query, k |-> k,
                           filter |-> flt, useReranker |-> useReranker,
                           prevOp |-> last.op, builtIndex |-> g.builtNow,
                           vector |-> vectorCandidates,
                           lexical |-> bm25Candidates,
                           candidates |-> candidates]
              IN /\ IF useReranker /\ candidates # <<>>
                    THEN \E outcome \in RerankOutcomes,
                            scores \in [DOMAIN candidates -> ScoreValues] :
                           /\ outcome = "load_fails" => NeedsLoad(reranker)
                           /\ outcome # "ok" => scores = [i \in DOMAIN candidates |-> 0]
                           /\ reranker' = RerankerAfter(reranker, outcome)
                           /\ LET r == IF outcome = "ok"
                                       THEN Reranked(SortByScore(candidates, scores), k)
                                       ELSE RerankFallback(candidates, k)
                              IN last' = [rerank |-> outcome,
                                          scores |-> IF outcome = "ok" THEN scores ELSE <<>>,
                                          raised |-> r.raised,
                                          result |-> r.result] @@ call
                    ELSE /\ reranker' = reranker
                         /\ LET r == Unreranked(candidates, k)
                            IN last' = [rerank |-> "skipped", scores |-> <<>>,
                                        raised |-> r.raised,
                                        result |-> r.result] @@ call
                 /\ builds' = [embeddings |-> StoreProperty(storeOpen, embeddings,
                                                            builds.embeddings),
                               bm25 |-> IF g.builtNow THEN builds.bm25 + 1
                                        ELSE builds.bm25]
                 /\ bm25' = g.bm25
                 /\ allDocuments' = g.allDocuments
                 /\ storeOpen' = TRUE
                 /\ embeddings' = TRUE
                 /\ UNCHANGED <<store, procVars, batchVars, pdfVars, parserVars, ctorVars>>

\* the caller takes the list search returned; loadFailed tells whether the
\* search that returned had caught a failure of CrossEncoder(...)
Return ==
    /\ last.op = "search"
    /\ last' = [op |-> "returned", loadFailed |-> last.rerank = "load_fails"]
    /\ UNCHANGED <<store, storeOpen, embeddings, allDocuments, bm25, reranker,
                   builds, procVars, batchVars, pdfVars, parserVars, ctorVars>>

\* clear()
Clear ==
    /\ Ready
    /\ store' = <<>>
    /\ storeOpen' = TRUE
    /\ embeddings' = TRUE
    /\ builds' = [builds EXCEPT !.embeddings =
                      EmbeddingsProperty(embeddings \/ ~storeOpen,
                                         StoreProperty(storeOpen, embeddings, @))]
    /\ last' = [op |-> "clear"]
    /\ UNCHANGED <<allDocuments, bm25, reranker, procVars, batchVars, pdfVars, parserVars, ctorVars>>

BatchIdle ==
    /\ filePaths = <<>>
    /\ batch = NotRun

PdfIdle ==
    /\ chars = <<>>
    /\ pageText = NotRun
    /\ rawText = <<>>
    /\ dedupText = NotRun

ParserIdle ==
    /\ grid = <<>>
    /\ markdown = NotRun
    /\ pageTables = <<>>
    /\ proseText = <<>>
    /\ pageContent = NotRun

CtorIdle ==
    /\ ctorArgs = [maxTokens |-> -1, tokenOverlap |-> -1]
    /\ splitter = NotRun

ProcIdle ==
    /\ text = <<>>
    /\ extracted = NotRun
    /\ table = <<>>
    /\ maxTokens = 0
    /\ tableChunks = NotRun
    /\ pages = <<>>
    /\ doc = NotRun

\* a new VectorDB over a persist directory that holds nothing or one chunk
\* of an earlier session
Init ==
    /\ store \in {<<>>} \cup {<<d>> : d \in DocChunks}
    /\ storeOpen = FALSE
    /\ embeddings = FALSE
    /\ allDocuments = NoDocuments
    /\ bm25 = NoIndex
    /\ reranker = FALSE
    /\ builds = NoBuilds
    /\ last = [op |-> "init"]
    /\ ProcIdle
    /\ BatchIdle
    /\ PdfIdle
    /\ ParserIdle
    /\ CtorIdle

Next == AddNewList \/ AddSameList \/ AddEmptyList \/ Search \/ Return \/ Clear

Spec == Init /\ [][Next]_vars

DbIdle ==
    /\ store = <<>>
    /\ storeOpen = FALSE
    /\ embeddings = FALSE
    /\ allDocuments = NoDocuments
    /\ bm25 = NoIndex
    /\ reranker = FALSE
    /\ builds = NoBuilds
    /\ last = [op |-> "init"]

InitExtract ==
    /\ text \in InputTexts
    /\ extracted = NotRun
    /\ table = <<>>
    /\ maxTokens = 0
    /\ tableChunks = NotRun
    /\ pages = <<>>
    /\ doc = NotRun
    /\ DbIdle
    /\ BatchIdle
    /\ PdfIdle
    /\ ParserIdle
    /\ CtorIdle

NextExtract == ExtractTablesCall

SpecExtract == InitExtract /\ [][NextExtract]_vars

InitChunk ==
    /\ table \in InputTables
    /\ maxTokens \in 0..MaxBudget
    /\ tableChunks = NotRun
    /\ text = <<>>
    /\ extracted = NotRun
    /\ pages = <<>>
    /\ doc = NotRun
    /\ DbIdle
    /\ BatchIdle
    /\ PdfIdle
    /\ ParserIdle
    /\ CtorIdle

NextChunk == ChunkTableCall

SpecChunk == InitChunk /\ [][NextChunk]_vars

(***************************************************************************)
(* SpecPages: process_file over documents of up to MaxPages pages.         *)
(***************************************************************************)
InitPages ==
    /\ pages \in SeqsUpTo(PageContents, MaxPages)
    /\ doc = NotRun
    /\ text = <<>>
    /\ extracted = NotRun
    /\ table = <<>>
    /\ maxTokens = 0
    /\ tableChunks = NotRun
    /\ DbIdle
    /\ BatchIdle
    /\ PdfIdle
    /\ ParserIdle
    /\ CtorIdle

NextPages == ProcessFileCall

SpecPages == InitPages /\ [][NextPages]_vars

(***************************************************************************)
(* SpecTables: _extract_tables over texts of up to MaxLongLines lines,     *)
(* long enough to hold two tables.                                         *)
(***************************************************************************)
InitTables ==
    /\ text \in LongInputTexts
    /\ extracted = NotRun
    /\ table = <<>>
    /\ maxTokens = 0
    /\ tableChunks = NotRun
    /\ pages = <<>>
    /\ doc = NotRun
    /\ DbIdle
    /\ BatchIdle
    /\ PdfIdle
    /\ ParserIdle
    /\ CtorIdle

NextTables == ExtractTablesCall

SpecTables == InitTables /\ [][NextTables]_vars

(***************************************************************************)
(* SpecBatch: process_files over up to MaxFiles paths.                     *)
(***************************************************************************)
InitBatch ==
    /\ filePaths \in SeqsUpTo(FileContents, MaxFiles)
    /\ batch = BatchStart
    /\ ProcIdle
    /\ DbIdle
    /\ PdfIdle
    /\ ParserIdle
    /\ CtorIdle

NextBatch == ProcessFilesStep \/ ProcessFilesReturn

SpecBatch == InitBatch /\ [][NextBatch]_vars

(***************************************************************************)
(* SpecChars: _extract_text_from_chars over pages of up to MaxGlyphs       *)
(* glyphs.                                                                 *)
(***************************************************************************)
InitChars ==
    /\ chars \in SeqsUpTo(Glyphs, MaxGlyphs)
    /\ pageText = NotRun
    /\ rawText = <<>>
    /\ dedupText = NotRun
    /\ ProcIdle
    /\ DbIdle
    /\ BatchIdle
    /\ ParserIdle
    /\ CtorIdle

NextChars == ExtractTextFromCharsCall

SpecChars == InitChars /\ [][NextChars]_vars

(***************************************************************************)
(* SpecDedup: _deduplicate_text over texts of up to MaxTextLen characters  *)
(* and over '2,000,000'.                                                   *)
(***************************************************************************)
InitDedup ==
    /\ rawText \in SeqsUpTo(TextChars, MaxTextLen) \cup {TwoMillion}
    /\ dedupText = NotRun
    /\ chars = <<>>
    /\ pageText = NotRun
    /\ ProcIdle
    /\ DbIdle
    /\ BatchIdle
    /\ ParserIdle
    /\ CtorIdle

NextDedup == DeduplicateTextCall

SpecDedup == InitDedup /\ [][NextDedup]_vars

(***************************************************************************)
(* SpecMarkdown: _table_to_markdown over grids of up to MaxRows rows of up *)
(* to MaxCols cells.                                                       *)
(***************************************************************************)
InitMarkdown ==
    /\ grid \in SeqsUpTo(SeqsUpTo(Cells, MaxCols), MaxRows)
    /\ markdown = NotRun
    /\ pageTables = <<>>
    /\ proseText = <<>>
    /\ pageContent = NotRun
    /\ ProcIdle
    /\ DbIdle
    /\ BatchIdle
    /\ PdfIdle
    /\ CtorIdle

NextMarkdown == TableToMarkdownCall

SpecMarkdown == InitMarkdown /\ [][NextMarkdown]_vars

(***************************************************************************)
(* SpecPage: _extract_page_content over pages of up to MaxPageTables       *)
(* tables.                                                                 *)
(***************************************************************************)
InitPage ==
    /\ pageTables \in SeqsUpTo([top : TableTops, data : TableGrids], MaxPageTables)
    /\ proseText \in ProseTexts
    /\ pageContent = NotRun
    /\ grid = <<>>
    /\ markdown = NotRun
    /\ ProcIdle
    /\ DbIdle
    /\ BatchIdle
    /\ PdfIdle
    /\ CtorIdle

NextPage == ExtractPageContentCall

SpecPage == InitPage /\ [][NextPage]_vars

(***************************************************************************)
(* SpecCtor: DocumentProcessor(max_tokens, token_overlap) over arguments   *)
(* up to MaxTokensArg and MaxOverlapArg, None included.                    *)
(***************************************************************************)
InitCtor ==
    /\ ctorArgs \in [maxTokens : -1..MaxTokensArg, tokenOverlap : -1..MaxOverlapArg]
    /\ splitter = NotRun
    /\ ProcIdle
    /\ DbIdle
    /\ BatchIdle
    /\ PdfIdle
    /\ ParserIdle

NextCtor == DocumentProcessorInit

SpecCtor == InitCtor /\ [][NextCtor]_vars

\* C1 as stated: the page ranges tile [0, len(full_text)) exactly: the first
\* starts at 0, each range ends where the next starts, and the last ends at
\* len(full_text).
C1_PageRangesTile ==
    (doc.done /\ ~doc.empty) =>
        LET r == doc.pageRanges
        IN /\ r[1].start = 0
           /\ \A i \in 1..(Len(r) - 1) : r[i].end = r[i + 1].start
           /\ r[Len(r)].end = Len(doc.fullText)

(***************************************************************************)
(* Claims about _extract_tables (SpecExtract).                             *)
(***************************************************************************)
Range(f) == {f[i] : i \in DOMAIN f}

NoPipeLine(t) == \A l \in Range(Split(t, NL)) : ~StartsWith(l, <<"|">>)

NoStrippedPipeLine(t) == \A l \in Range(Split(t, NL)) : ~StartsWith(Strip(l), <<"|">>)

ReturnedUnchanged ==
    /\ extracted.text = text
    /\ extracted.tables = <<>>
    /\ extracted.positions = <<>>

\* C7 as stated: for every text none of whose lines starts with the '|'
\* delimiter, _extract_tables returns the text unchanged, no table and no
\* offset.
C7_NoPipeLineUnchanged ==
    (extracted.done /\ NoPipeLine(text)) => ReturnedUnchanged

\* C7 amended: for every text none of whose lines has '|' as its first
\* non-whitespace character, _extract_tables returns the text unchanged, no
\* table and no offset.
C7_NoStrippedPipeLineUnchanged ==
    (extracted.done /\ NoStrippedPipeLine(text)) => ReturnedUnchanged

\* a three-line text with a '|' inside a line and a line with leading
\* whitespace, no line having '|' as first non-whitespace character, after
\* the call
C7_Witness ==
    /\ extracted.done
    /\ NoStrippedPipeLine(text)
    /\ Len(Split(text, NL)) = 3
    /\ \E l \in Range(Split(text, NL)) : "|" \in Range(l)
    /\ \E l \in Range(Split(text, NL)) : l # <<>> /\ Head(l) = " "

(***************************************************************************)
(* Claims about _chunk_table (SpecChunk).                                  *)
(***************************************************************************)
SourceLines == Split(table, NL)
SourceHeader == Join(SubSeq(SourceLines, 1, 2), <<NL>>)
SourceRows == SubSeq(SourceLines, 3, Len(SourceLines))

\* the words of chunk c that follow the header's words
WordsAfterHeader(c) ==
    SubSeq(Words(c), Len(Words(SourceHeader)) + 1, Len(Words(c)))

\* the words of c after the header are those of a run of whole source rows
WholeRowsOnly(c) ==
    StartsWith(Words(c), Words(SourceHeader)) =>
        \E i \in 1..(Len(SourceRows) + 1), j \in 0..Len(SourceRows) :
            WordsAfterHeader(c) = Words(Join(SubSeq(SourceRows, i, j), <<NL>>))

\* C6 as stated: every data row of every chunk is verbatim a data row of the
\* source table, no row is split or truncated, and every sub-chunk of a
\* multi-chunk table begins with the source's header row and delimiter row.
C6_RowIntegrity ==
    (tableChunks.done /\ Len(SourceLines) >= 3) =>
        LET chunks == tableChunks.chunks
        IN /\ \A n \in DOMAIN chunks :
                 /\ \A i \in 3..Len(Split(chunks[n], NL)) :
                        Split(chunks[n], NL)[i] \in Range(SourceRows)
                 /\ WholeRowsOnly(chunks[n])
           /\ Len(chunks) > 1 =>
                 \A n \in DOMAIN chunks :
                     SubSeq(Split(chunks[n], NL), 1, 2) = SubSeq(SourceLines, 1, 2)

(***************************************************************************)
(* Claims about VectorDB (Spec).                                           *)
(***************************************************************************)
Count(docs, d) == Cardinality({i \in DOMAIN docs : docs[i] = d})

\* the same documents, each as many times
SameDocuments(xs, ys) == \A d \in DocChunks : Count(xs, d) = Count(ys, d)

RECURSIVE FirstOfEachText(_, _)
\* docs without the documents whose text an earlier document has
FirstOfEachText(docs, i) ==
    IF i > Len(docs) THEN <<>>
    ELSE (IF \E j \in 1..(i - 1) : docs[j].text = docs[i].text
          THEN <<>> ELSE <<docs[i]>>) \o FirstOfEachText(docs, i + 1)

Searched == last.op = "search"

\* C2 as stated: the search that follows a successful add_documents builds
\* the lexical index, and builds it from every chunk the vector store holds,
\* chunks persisted before the session included.
C2_IndexRebuiltFromFullCorpus ==
    (Searched /\ last.prevOp = "add") =>
        /\ last.builtIndex
        /\ bm25.built
        /\ SameDocuments(bm25.docs, store)

\* C3: the list search returns never holds two chunks with the same text.
C3_NoDuplicateTexts ==
    Searched =>
        \A i, j \in DOMAIN last.result :
            i # j => last.result[i].text # last.result[j].text

\* a search that returned two chunks while the vector index and the lexical
\* index both returned the same chunk and the vector index returned two
\* chunks of one text
C3_Witness ==
    /\ Searched
    /\ Len(last.result) = 2
    /\ \E i \in DOMAIN last.vector, j \in DOMAIN last.lexical :
          last.vector[i] = last.lexical[j]
    /\ \E i, j \in DOMAIN last.vector :
          i # j /\ last.vector[i].text = last.vector[j].text

\* C4: when the reranker fails to load or to score, search raises nothing
\* and returns the first k chunks of the deduplicated vector-then-lexical
\* merge, in merge order.
C4_RerankerFailureDegrades ==
    (Searched /\ last.useReranker /\ last.rerank \in {"load_fails", "predict_fails"}) =>
        /\ ~last.raised
        /\ last.result =
              LET merged == FirstOfEachText(last.vector \o last.lexical, 1)
              IN SubSeq(merged, 1, Min(last.k, Len(merged)))

\* a search whose reranker failed at scoring time, with more merged
\* candidates than k >= 1 and a chunk returned by both indexes
C4_Witness ==
    /\ Searched
    /\ last.rerank = "predict_fails"
    /\ last.k >= 1
    /\ Len(last.candidates) > last.k
    /\ Len(last.result) = last.k
    /\ \E i \in DOMAIN last.vector, j \in DOMAIN last.lexical :
          last.vector[i] = last.lexical[j]

\* a search whose reranker failed to load
C4_WitnessLoad ==
    /\ Searched
    /\ last.rerank = "load_fails"
    /\ last.result # <<>>

\* C5: search returns at most k chunks, for every k >= 0 and either
\* reranker setting.
C5_AtMostK == Searched => Len(last.result) <= last.k

\* a search without reranking that merged more candidates than k >= 1 and
\* returned k of them
C5_Witness ==
    /\ Searched
    /\ ~last.useReranker
    /\ last.k >= 1
    /\ Len(last.candidates) > last.k
    /\ Len(last.result) = last.k

\* C9 as stated: when the vector store holds no chunk, search returns the
\* empty list and raises nothing.
C9_EmptyCorpusEmptyResult ==
    (Searched /\ store = <<>>) => (last.result = <<>> /\ ~last.raised)

\* C10 as stated: for the empty query string search returns the empty list
\* and raises nothing.
C10_EmptyQueryEmptyResult ==
    (Searched /\ last.query = "") => (last.result = <<>> /\ ~last.raised)

(***************************************************************************)
(* Claims about process_files (SpecBatch).                                 *)
(***************************************************************************)
RECURSIVE ChunksOfSuccessful(_)
\* the concatenation, in call order, of the lists the successful
\* process_file calls returned
ChunksOfSuccessful(calls) ==
    IF calls = <<>> THEN <<>>
    ELSE (IF Head(calls).raised THEN <<>> ELSE Head(calls).docs)
         \o ChunksOfSuccessful(Tail(calls))

\* C11: process_files raises nothing; process_file was called once for every
\* path, in input order, also after a call that raised; a path whose call
\* raised contributes no chunk and the result is the concatenation, in input
\* order, of the chunks of the paths that were processed.
C11_LogAndContinue ==
    batch.done =>
        /\ ~batch.raised
        /\ Len(batch.calls) = Len(filePaths)
        /\ \A n \in DOMAIN filePaths : batch.calls[n].raised = ~filePaths[n].readable
        /\ batch.allDocuments = ChunksOfSuccessful(batch.calls)

\* a batch of three paths returned: the first and the last hold a PDF that
\* yields chunks, the one between them cannot be read
C11_Witness ==
    /\ batch.done
    /\ Len(filePaths) = 3
    /\ ~filePaths[2].readable
    /\ batch.calls[1].docs # <<>>
    /\ batch.calls[3].docs # <<>>
    /\ batch.allDocuments = batch.calls[1].docs \o batch.calls[3].docs
    /\ batch.calls[1].docs # batch.calls[3].docs

(***************************************************************************)
(* Claims about page attribution in process_file (SpecPages).              *)
(***************************************************************************)
\* page_content + "\n\n" of every page, before the strip of line 225
RawText(ps) == AssembleLoop(ps, 1, <<>>, <<>>, 0).fullText

\* the number of characters line 225 strips from the front
StrippedLead(ps) == Len(RawText(ps)) - Len(LStrip(RawText(ps)))

RECURSIVE RawStart(_, _)
\* the offset in RawText(ps) at which the content of page n begins
RawStart(ps, n) == IF n = 1 THEN 0 ELSE RawStart(ps, n - 1) + Len(ps[n - 1]) + 2

\* the pages whose content holds the character at offset `position` of
\* full_text
PagesHolding(ps, position) ==
    {n \in DOMAIN ps :
        /\ RawStart(ps, n) <= position + StrippedLead(ps)
        /\ position + StrippedLead(ps) < RawStart(ps, n) + Len(ps[n])}

TableDocsOf(d) == {n \in DOMAIN d.docs : d.docs[n].contentType = "table"}

\* C12 as stated: every chunk of every extracted table carries the page
\* number of the page whose content holds the table's first line.
C12_TablePageExact ==
    (doc.done /\ ~doc.empty) =>
        \A n \in TableDocsOf(doc) :
            /\ doc.docs[n].hasPage
            /\ PagesHolding(pages, doc.tablePositions[doc.docs[n].tableIndex + 1])
                  = {doc.docs[n].page}

(***************************************************************************)
(* Claims about _extract_text_from_chars (SpecChars).                      *)
(***************************************************************************)
\* the glyph list [("ה",10,10), ("ה",11,11), ("ה",200,10)] as (text, x0, top)
ExampleGlyphs ==
    << [text |-> "ה", x0 |-> 10, top |-> 10],
       [text |-> "ה", x0 |-> 11, top |-> 11],
       [text |-> "ה", x0 |-> 200, top |-> 10] >>

Copies(c, n) == [i \in 1..n |-> c]

RECURSIVE CollapsedByRuns(_)
\* s with each maximal run of one character replaced as the claim says: a
\* Hebrew run of 2 or more and any other run of 4 or more by one character,
\* every other run by itself
CollapsedByRuns(s) ==
    IF s = <<>> THEN <<>>
    ELSE LET n == RunLength(s)
             kept == IF Head(s) \in HebrewBlock THEN 1
                     ELSE IF n >= 4 THEN 1 ELSE n
         IN Copies(Head(s), kept) \o CollapsedByRuns(SubSeq(s, n + 1, Len(s)))

C20_WitnessFour ==
    /\ dedupText.done
    /\ rawText = <<"ב", "0", "0", "0", "0">>
    /\ dedupText.text = <<"ב", "0">>

(***************************************************************************)
(* Claims about the ranking and the caches of VectorDB (Spec).             *)
(***************************************************************************)
\* what the lexical index, as it is after the call, returns as its top n
LexicalTop(n) == Bm25Results(IF bm25.built THEN [bm25 EXCEPT !.k = n] ELSE bm25)

\* C14: with reranking enabled and a reranker that works, the chunks search
\* returns are the k highest-scored of the deduplicated merge of the vector
\* index's top 4k and the lexical index's top 4k, in descending score
\* order.
C14_RerankedTopK ==
    (Searched /\ last.useReranker /\ last.rerank = "ok") =>
        LET merged == FirstOfEachText(last.vector \o last.lexical, 1)
            res == last.result
        IN /\ last.vector \in VectorResults(store, last.filter, 4 * last.k)
           /\ last.lexical \in LexicalTop(4 * last.k)
           /\ Len(last.scores) = Len(merged)
           /\ Len(res) = Min(last.k, Len(merged))
           /\ \E idx \in [DOMAIN res -> DOMAIN merged] :
                 /\ \A i, j \in DOMAIN res : i # j => idx[i] # idx[j]
                 /\ \A i \in DOMAIN res : res[i] = merged[idx[i]]
                 /\ \A i, j \in DOMAIN res :
                        i < j => last.scores[idx[i]] >= last.scores[idx[j]]
                 /\ \A m \in DOMAIN merged \ Range(idx) :
                        \A i \in DOMAIN res : last.scores[m] <= last.scores[idx[i]]

\* a reranked search for k = 1 over two merged candidates of which the
\* second has the higher score: the second is returned
C14_Witness ==
    /\ Searched
    /\ last.rerank = "ok"
    /\ last.k = 1
    /\ Len(last.candidates) = 2
    /\ last.scores = <<0, 1>>
    /\ last.result = <<last.candidates[2]>>

\* C15: with reranking disabled search returns the first k elements of the
\* vector index's top k followed by the lexical index's top k, later
\* occurrences of a text already seen removed.
C15_UnrerankedMergePrefix ==
    (Searched /\ ~last.useReranker) =>
        /\ ~last.raised
        /\ last.vector \in VectorResults(store, last.filter, last.k)
        /\ last.lexical \in LexicalTop(last.k)
        /\ last.result = Take(FirstOfEachText(last.vector \o last.lexical, 1), last.k)

\* a search without reranking for k = 2 in which both indexes return the
\* same two chunks in opposite orders: the vector order is returned
C15_Witness ==
    /\ Searched
    /\ ~last.useReranker
    /\ last.k = 2
    /\ Len(last.vector) = 2
    /\ last.vector[1].text # last.vector[2].text
    /\ last.lexical = <<last.vector[2], last.vector[1]>>
    /\ last.result = last.vector

\* constructing a VectorDB builds nothing; the embedding model is built at
\* most once and is there once the store was used; the lexical index is
\* built at most once since the last add_documents
BuiltLazilyAtMostOnce ==
    /\ last.op = "init" => (~embeddings /\ ~storeOpen /\ ~bm25.built /\ builds = NoBuilds)
    /\ builds.embeddings <= 1
    /\ embeddings <=> builds.embeddings = 1
    /\ storeOpen => embeddings
    /\ builds.bm25 <= 1
    /\ bm25.built => builds.bm25 = 1

\* a search that finds a lexical index uses it and builds none
IndexReused ==
    (bm25.built /\ last'.op = "search") =>
        /\ ~last'.builtIndex
        /\ bm25'.built
        /\ bm25'.docs = bm25.docs
        /\ builds'.bm25 = builds.bm25

\* C16: constructing a VectorDB builds neither the embedding model nor the
\* lexical index; each is built on first use; the embedding model is built
\* at most once per instance, and over searches with no add_documents
\* between them the lexical index is built at most once and reused.
C16_LazyAndCached == [](BuiltLazilyAtMostOnce) /\ [][IndexReused]_vars

\* a second search in a row on a non-empty corpus: it reuses the index the
\* first one built, and the embedding model was built once
C16_Witness ==
    /\ Searched
    /\ last.prevOp = "returned"
    /\ ~last.builtIndex
    /\ bm25.built
    /\ builds = [embeddings |-> 1, bm25 |-> 1]

(***************************************************************************)
(* Claims about the offsets of _extract_tables (SpecTables).               *)
(***************************************************************************)
\* offset p is where a line of t begins
LineStart(t, p) == p = 0 \/ (p <= Len(t) /\ t[p] = NL)

\* C17: there is one offset per extracted table; the offset of table i is
\* where its first line begins in the text passed in, so that
\* text[p_i : p_i + len(table_i)] = table_i; the offsets increase strictly.
C17_OffsetsExact ==
    extracted.done =>
        /\ Len(extracted.positions) = Len(extracted.tables)
        /\ \A i \in DOMAIN extracted.tables :
               LET p == extracted.positions[i]
               IN /\ p >= 0
                  /\ LineStart(text, p)
                  /\ Slice(text, p, p + Len(extracted.tables[i])) = extracted.tables[i]
        /\ \A i \in 1..(Len(extracted.positions) - 1) :
               extracted.positions[i] < extracted.positions[i + 1]

\* a text from which two tables were extracted, the second after a line of
\* prose
C17_Witness ==
    /\ extracted.done
    /\ Len(extracted.tables) = 2
    /\ extracted.positions[2] > Len(extracted.tables[1]) + 1
    /\ extracted.text = Join(<<Placeholder(0), <<"a">>, Placeholder(1)>>, <<NL>>)

(***************************************************************************)
(* Claims about the token budget of _chunk_table (SpecChunk).              *)
(***************************************************************************)
\* the budget of the call
Budget == IF maxTokens = 0 THEN MAX_TABLE_TOKENS ELSE maxTokens

\* C18 as stated, for the tables _chunk_table splits by rows (a table over
\* the budget with a header below it and at least one data row): every
\* chunk returned fits the token budget, also when a single data row is
\* larger than what the header leaves of it.  The chunk's own token count
\* is taken: the header's count plus the rows' counts is never smaller
\* (every count includes the two special tokens), so a chunk that is over
\* the budget here is over it in the claim's sum as well.
C18_ChunksFitBudget ==
    (/\ tableChunks.done
     /\ Len(SourceLines) >= 3
     /\ CountTokens(SourceHeader) < Budget
     /\ CountTokens(table) > Budget) =>
        \A n \in DOMAIN tableChunks.chunks :
            CountTokens(tableChunks.chunks[n]) <= Budget

(***************************************************************************)
(* Claims about the page of text chunks in process_file (SpecPages).       *)
(***************************************************************************)
TextDocsOf(d) == {n \in DOMAIN d.docs : d.docs[n].contentType = "text"}

\* the first 50 characters of a chunk, the whole chunk if it is shorter
ChunkPrefix(c) == SubSeq(c, 1, Min(50, Len(c)))

PlaceholderStart == <<"_", "_", "T", "A", "B", "L", "E", "_">>

\* C19 as stated: a text chunk whose prefix starts with a table placeholder
\* or does not occur in full_text has no page field; any other text chunk
\* has the page whose content holds the first occurrence of its prefix.
C19_TextPageByPrefix ==
    (doc.done /\ ~doc.empty) =>
        \A n \in TextDocsOf(doc) :
            LET prefix == ChunkPrefix(doc.docs[n].content)
                at == Find(doc.fullText, prefix)
            IN IF StartsWith(prefix, PlaceholderStart) \/ at = -1
               THEN ~doc.docs[n].hasPage
               ELSE /\ doc.docs[n].hasPage
                    /\ PagesHolding(pages, at) = {doc.docs[n].page}

RECURSIVE SplitCells(_, _)
\* the pieces of s between occurrences of ' | '; cur is the piece being read
SplitCells(s, cur) ==
    IF s = <<>> THEN <<cur>>
    ELSE IF StartsWith(s, <<" ", "|", " ">>)
    THEN <<cur>> \o SplitCells(SubSeq(s, 4, Len(s)), <<>>)
    ELSE SplitCells(Tail(s), Append(cur, Head(s)))

\* a Markdown table line opens with '| ' and closes with ' |'
IsMarkdownRow(line) ==
    /\ Len(line) >= 4
    /\ SubSeq(line, 1, 2) = <<"|", " ">>
    /\ SubSeq(line, Len(line) - 1, Len(line)) = <<" ", "|">>

\* the cells of a Markdown table line
RowCells(line) == SplitCells(SubSeq(line, 3, Len(line) - 2), <<>>)

\* the cells a row shows at the header's width: its own cleaned cells, ''
\* where it has none
CellsAtWidth(row, width) ==
    [c \in 1..width |-> IF c <= Len(row) THEN CleanCell(row[c]) ELSE <<>>]

\* C21: for a cell grid whose first row is not empty, _table_to_markdown
\* returns the header line, one delimiter line of as many '---' cells as the
\* header has columns, and one line per non-empty data row; every line has
\* exactly header-width cells, short rows padded with empty cells and cells
\* beyond the header width dropped.
C21_MarkdownShape ==
    (markdown.done /\ grid # <<>> /\ grid[1] # <<>>) =>
        LET width == Len(grid[1])
            dataRows == SelectSeq(Tail(grid), LAMBDA row : row # <<>>)
            lines == Split(markdown.text, NL)
        IN /\ Len(lines) = 2 + Len(dataRows)
           /\ \A i \in DOMAIN lines :
                  IsMarkdownRow(lines[i]) /\ Len(RowCells(lines[i])) = width
           /\ RowCells(lines[1]) = CellsAtWidth(grid[1], width)
           /\ RowCells(lines[2]) = [c \in 1..width |-> <<"-", "-", "-">>]
           /\ \A r \in DOMAIN dataRows :
                  RowCells(lines[r + 2]) = CellsAtWidth(dataRows[r], width)

\* a one-column header, a data row of two cells and an empty row
C21_Witness ==
    /\ markdown.done
    /\ Len(grid) = 3
    /\ Len(grid[1]) = 1
    /\ Len(grid[2]) = 2
    /\ grid[3] = <<>>
    /\ Len(Split(markdown.text, NL)) = 3

\* a two-column header and a data row of one cell
C21_WitnessPadded ==
    /\ markdown.done
    /\ Len(grid) = 2
    /\ Len(grid[1]) = 2
    /\ Len(grid[2]) = 1
    /\ Len(RowCells(Split(markdown.text, NL)[3])) = 2

\* C22 as stated: on a page with tables and non-empty prose outside them
\* the page output is the prose block, then the tables in ascending order of
\* their top edge, whatever the top edges are (0 included).
C22_ProseThenTablesByTop ==
    (pageContent.done /\ pageTables # <<>> /\ proseText # <<>>) =>
        LET e == pageContent.elements
        IN /\ Len(e) = Len(pageTables) + 1
           /\ e[1].kind = "text" /\ e[1].content = proseText
           /\ \A i \in 2..Len(e) : e[i].kind = "table"
           /\ \A i, j \in 2..Len(e) : i < j => e[i].y <= e[j].y
           /\ pageContent.content = JoinParts(e)

\* the same for the pages none of whose tables has top edge 0
C22_ProseFirstBelowTop ==
    (\A i \in DOMAIN pageTables : pageTables[i].top > 0) => C22_ProseThenTablesByTop

\* the documents of the table with ordinal i (0-based)
DocsOfTable(i) ==
    SelectSeq(doc.docs, LAMBDA d : d.contentType = "table" /\ d.tableIndex = i)

C24_NothingStaleAfterClear ==
    (Searched /\ store = <<>> /\ last.prevOp \in {"clear", "add_empty", "returned"}) =>
        last.result = <<>>

\* C25 as stated: every chunk a search with a metadata filter returns
\* satisfies the filter.
C25_ResultsSatisfyFilter ==
    (Searched /\ last.filter # 0) =>
        \A i \in DOMAIN last.result : last.result[i].page = last.filter

\* the list passed to the first add_documents call still is what it was
\* when it was passed (the later lists are only read)
CallerListUntouched ==
    allDocuments.kind = "aliased" => allDocuments.items = allDocuments.passed

\* an add_documents call adds each chunk of its list once to the corpus
AddedOncePerAdd ==
    last'.op = "add" =>
        allDocuments'.items =
            (IF allDocuments.kind = "none" THEN <<>> ELSE allDocuments.items)
            \o last'.passed

\* C26 as stated: add_documents never modifies a list a caller passed, and
\* the lexical corpus gets each added chunk exactly once per add.
C26_CallerListsKept == [](CallerListUntouched) /\ [][AddedOncePerAdd]_vars

\* the step is a search call
SearchStep == last'.op = "search" /\ last.op # "search"

\* the search of this step constructs the CrossEncoder
LoadAttempt == SearchStep /\ last'.rerank # "skipped" /\ NeedsLoad(reranker)

\* a loaded reranker stays loaded and is not loaded again; a failed load
\* leaves no reranker behind and the search returns the first k merged
\* candidates
LoadOnceFailureNotCached ==
    /\ reranker => reranker'
    /\ SearchStep =>
          /\ reranker => ~LoadAttempt
          /\ last'.rerank = "load_fails" =>
                /\ ~reranker'
                /\ ~last'.raised
                /\ last'.result = Take(last'.candidates, last'.k)
          /\ last'.rerank \in {"ok", "predict_fails"} => reranker'

\* the search before this step caught a load failure
AfterLoadFailure == last.op = "returned" /\ last.loadFailed

\* C27 as stated: once the reranker has loaded no later search loads it
\* again; a load failure is not cached and the search returns the
\* un-reranked merge; the search with reranking enabled that follows a load
\* failure attempts the load again.
C27_NextSearchRetriesLoad ==
    [][/\ LoadOnceFailureNotCached
       /\ (SearchStep /\ last'.useReranker /\ AfterLoadFailure) => LoadAttempt]_vars

\* C27 amended: the load is attempted again by every search with reranking
\* enabled that has at least one merged candidate, as long as no reranker
\* is loaded.
C27_SearchWithCandidatesRetriesLoad ==
    [][/\ LoadOnceFailureNotCached
       /\ (SearchStep /\ last'.useReranker /\ last'.candidates # <<>> /\ ~reranker)
             => LoadAttempt]_vars

\* a search of a session with a lexical index has caught a load failure and
\* returned: no reranker is left behind
C27_Witness ==
    /\ AfterLoadFailure
    /\ bm25.built
    /\ ~reranker

\* C28 as stated: DocumentProcessor(max_tokens=m, token_overlap=o) gives its
\* text splitter exactly budget m and overlap o, for every m >= 1 and every
\* o >= 0 (o = 0 included).
C28_SplitterGetsArguments ==
    (splitter.done /\ ctorArgs.maxTokens >= 1 /\ ctorArgs.tokenOverlap >= 0) =>
        /\ splitter.config.chunkSize = ctorArgs.maxTokens
        /\ splitter.config.chunkOverlap = ctorArgs.tokenOverlap

\* the same for every o >= 1
C28_PositiveOverlapKept ==
    ctorArgs.tokenOverlap # 0 => C28_SplitterGetsArguments

\* the placeholder tokens '__TABLE_0__' ... '__TABLE_9__'
PlaceholderTokens == {Placeholder(i) : i \in 0..9}

\* the i of the placeholder line '__TABLE_i__'
PlaceholderIndex(line) == CHOOSE i \in 0..9 : Placeholder(i) = line

\* t with each placeholder line '__TABLE_i__' replaced by the i-th table
Restored(t, tables) ==
    LET lines == Split(t, NL)
    IN Join([n \in DOMAIN lines |->
                IF lines[n] \in PlaceholderTokens
                   /\ PlaceholderIndex(lines[n]) < Len(tables)
                THEN tables[PlaceholderIndex(lines[n]) + 1]
                ELSE lines[n]],
            <<NL>>)

\* C29: for a text none of whose lines is a placeholder token, replacing
\* each placeholder line of the text _extract_tables returns by the table of
\* its index gives the original text back, and the placeholder lines of the
\* returned text are '__TABLE_0__', '__TABLE_1__', ... in this order, one
\* per table.
C29_ExtractionLossless ==
    (extracted.done /\ \A l \in Range(Split(text, NL)) : l \notin PlaceholderTokens) =>
        /\ Restored(extracted.text, extracted.tables) = text
        /\ SelectSeq(Split(extracted.text, NL), LAMBDA l : l \in PlaceholderTokens)
              = [i \in 1..Len(extracted.tables) |-> Placeholder(i - 1)]

\* two tables, the second one indented, with a line of prose between them
C29_Witness ==
    /\ extracted.done
    /\ Len(extracted.tables) = 2
    /\ Head(extracted.tables[2]) = " "
    /\ Len(Split(extracted.text, NL)) = 3
    /\ Restored(extracted.text, extracted.tables) = text

\* the data rows of a chunk: its lines after the two header lines
DataRows(chunk) == LET lines == Split(chunk, NL) IN SubSeq(lines, 3, Len(lines))

RECURSIVE Flatten(_)
\* the concatenation of a sequence of sequences
Flatten(seqs) == IF seqs = <<>> THEN <<>> ELSE Head(seqs) \o Flatten(Tail(seqs))

\* C30: when _chunk_table splits a table by rows (a table over the budget
\* with a header below it and at least one data row), the data rows of the
\* returned chunks, concatenated in order, are exactly the data rows of the
\* table, and no chunk is the header alone.
C30_RowsPreserved ==
    (/\ tableChunks.done
     /\ Len(SourceLines) >= 3
     /\ CountTokens(SourceHeader) < Budget
     /\ CountTokens(table) > Budget) =>
        LET chunks == tableChunks.chunks
        IN /\ Flatten([n \in DOMAIN chunks |-> DataRows(chunks[n])]) = SourceRows
           /\ \A n \in DOMAIN chunks :
                  /\ StartsWith(chunks[n], SourceHeader \o <<NL>>)
                  /\ chunks[n] # SourceHeader \o <<NL>>
                  /\ DataRows(chunks[n]) # <<>>

\* a table split by rows into a chunk of two rows and a chunk of one row
C30_Witness ==
    /\ tableChunks.done
    /\ Len(SourceLines) >= 3
    /\ CountTokens(SourceHeader) < Budget
    /\ CountTokens(table) > Budget
    /\ Len(SourceRows) = 3
    /\ Len(tableChunks.chunks) = 2
    /\ Len(DataRows(tableChunks.chunks[1])) = 2
    /\ Len(DataRows(tableChunks.chunks[2])) = 1
====
